---- MODULE Spec2Model ----
(***************************************************************************)
(* md2pdf.py: the orchestrator main() and the image relocator              *)
(* copy_images(), over a small POSIX filesystem.                           *)
(*                                                                         *)
(* A path is the sequence of its "/"-separated components; an absolute     *)
(* path starts with the component "/".  "./img/a.png" is                   *)
(* <<".", "img", "a.png">>, "/d/a.png" is <<"/", "d", "a.png">>, the empty *)
(* string (and a missing attribute, both falsy in Python) is <<>>.         *)
(***************************************************************************)
EXTENDS Integers, Sequences, FiniteSets, TLC

\* Longest list of <img> elements a document holds.
MaxImgs == 2

Procs == {1, 2}

Root == <<"/">>
\* The working directory of every invocation.
Cwd == <<"/", "d">>

(***************************************************************************)
(* os.path, as the POSIX implementation computes it                        *)
(***************************************************************************)
IsAbs(p) == Len(p) > 0 /\ p[1] = "/"

Front(p) == SubSeq(p, 1, Len(p) - 1)

\* os.path.join(a, b): an absolute b discards a.
Join(a, b) == IF IsAbs(b) THEN b ELSE a \o b

\* os.path.dirname(p): "" for a bare name, "/" for a name in the root.
Dirname(p) ==
    IF Len(p) = 0 THEN <<>>
    ELSE IF Len(p) = 1 THEN (IF IsAbs(p) THEN p ELSE <<>>)
    ELSE Front(p)

\* os.path.basename(p)
Basename(p) == IF Len(p) = 0 \/ p = Root THEN "" ELSE p[Len(p)]

RECURSIVE NormComps(_, _, _)
\* The component loop of os.path.normpath: acc is new_comps.
NormComps(abs, acc, rest) ==
    IF rest = <<>> THEN acc
    ELSE LET c == Head(rest) IN
         IF c = "." THEN NormComps(abs, acc, Tail(rest))
         ELSE IF c # ".." THEN NormComps(abs, Append(acc, c), Tail(rest))
         ELSE IF (~abs /\ acc = <<>>) \/ (acc # <<>> /\ acc[Len(acc)] = "..")
              THEN NormComps(abs, Append(acc, c), Tail(rest))
         ELSE IF acc # <<>> THEN NormComps(abs, Front(acc), Tail(rest))
         ELSE NormComps(abs, acc, Tail(rest))

\* os.path.normpath(p): lexical, the filesystem is not consulted.
Normpath(p) ==
    IF IsAbs(p) THEN Root \o NormComps(TRUE, <<>>, Tail(p))
    ELSE LET r == NormComps(FALSE, <<>>, p) IN IF r = <<>> THEN <<".">> ELSE r

\* os.path.abspath(p) == normpath(join(getcwd(), p))
Abspath(p) == Normpath(Join(Cwd, p))

\* src.startswith('./') and src.startswith('../')
StartsDotSlash(src) == Len(src) >= 2 /\ src[1] = "."
StartsDotDotSlash(src) == Len(src) >= 2 /\ src[1] = ".."

(***************************************************************************)
(* The filesystem: fl maps each regular file's resolved path to its        *)
(* content, ds is the set of directories.                                  *)
(***************************************************************************)
Bad == <<"!">>

RECURSIVE WalkFrom(_, _, _)
\* Kernel path resolution: every component is looked up in a directory.
WalkFrom(ds, cur, rest) ==
    IF rest = <<>> THEN cur
    ELSE IF cur \notin ds THEN Bad
    ELSE LET c == Head(rest) IN
         IF c = "." THEN WalkFrom(ds, cur, Tail(rest))
         ELSE IF c = ".." THEN WalkFrom(ds, IF cur = Root THEN Root ELSE Front(cur), Tail(rest))
         ELSE WalkFrom(ds, Append(cur, c), Tail(rest))

\* The resolved path p names (relative paths against the working directory),
\* or Bad when a directory on the way is missing or is a file.
Walk(ds, p) == WalkFrom(ds, Root, Tail(Join(Cwd, p)))

IsDir(ds, p) == Walk(ds, p) \in ds
IsFile(fl, ds, p) == Walk(ds, p) \in DOMAIN fl
\* os.path.exists(p)
Exists(fl, ds, p) == IsDir(ds, p) \/ IsFile(fl, ds, p)

\* os.mkdir(p) under "except OSError: if not exist_ok or not isdir(p): raise"
MkdirExistOk(fl, ds, p) ==
    LET r == Walk(ds, p) IN
    IF r = Bad \/ r \in DOMAIN fl THEN [ok |-> FALSE, dirs |-> ds]
    ELSE [ok |-> TRUE, dirs |-> ds \cup {r}]

RECURSIVE Makedirs(_, _, _)
\* os.makedirs(p, exist_ok=True): the missing ancestors first, then p itself.
Makedirs(fl, ds, p) ==
    LET head == Dirname(p)
        tail == Basename(p)
        climb == head # <<>> /\ tail # "" /\ ~Exists(fl, ds, head)
        up == IF climb THEN Makedirs(fl, ds, head) ELSE [ok |-> TRUE, dirs |-> ds]
    IN IF ~up.ok THEN up
       ELSE IF climb /\ tail = "." THEN up
       ELSE MkdirExistOk(fl, up.dirs, p)

\* open(p, 'w').write(content): creates or truncates a regular file.
WriteFile(fl, ds, p, content) ==
    LET r == Walk(ds, p) IN
    IF r = Bad \/ r \in ds THEN [ok |-> FALSE, file |-> fl]
    ELSE [ok |-> TRUE, file |-> [q \in DOMAIN fl \cup {r} |-> IF q = r THEN content ELSE fl[q]]]

\* os.remove(p)
RemoveFile(fl, ds, p) ==
    LET r == Walk(ds, p) IN
    IF r \notin DOMAIN fl THEN [ok |-> FALSE, file |-> fl]
    ELSE [ok |-> TRUE, file |-> [q \in DOMAIN fl \ {r} |-> fl[q]]]

\* shutil.copy2(src, dst): into dst when dst is a directory; SameFileError
\* when both name one file; IsADirectoryError when src is a directory.
Copy2(fl, ds, src, dst) ==
    LET to == IF IsDir(ds, dst) THEN Append(dst, Basename(src)) ELSE dst
        s == Walk(ds, src)
        t == Walk(ds, to)
    IN IF s # Bad /\ s = t /\ (s \in ds \/ s \in DOMAIN fl)
            THEN [ok |-> FALSE, file |-> fl, dst |-> t]
       ELSE IF s \notin DOMAIN fl THEN [ok |-> FALSE, file |-> fl, dst |-> t]
       ELSE LET w == WriteFile(fl, ds, to, fl[s]) IN [ok |-> w.ok, file |-> w.file, dst |-> t]

(***************************************************************************)
(* File contents.  A document is the list of the src attributes of its     *)
(* <img> elements, in document order (<<>> for an element without src);    *)
(* ser tells the text as written ("raw") from the text BeautifulSoup       *)
(* serialises ("bs4"), themed whether the template is wrapped around it.   *)
(***************************************************************************)
Img(id) == [kind |-> "img", id |-> id, imgs |-> <<>>, ser |-> "raw", themed |-> FALSE]
Text(imgs) == [kind |-> "text", id |-> "", imgs |-> imgs, ser |-> "raw", themed |-> FALSE]
NoDoc == [kind |-> "none", id |-> "", imgs |-> <<>>, ser |-> "raw", themed |-> FALSE]

\* markdown2.markdown(text): every image reference becomes an <img src=...>.
Markdown(text) == [text EXCEPT !.kind = "html"]

\* generate_html_template(html, colours...)
generate_html_template(html) == [html EXCEPT !.themed = TRUE]

\* wkhtmltopdf's output for an HTML text.
Pdf(html) == [html EXCEPT !.kind = "pdf"]

\* str(soup): the parsed tree, with its rewritten attributes, as text.
Serialize(html, tree) == [html EXCEPT !.imgs = tree, !.ser = "bs4"]

TempHtml == <<"temp.html">>
TestPdf == <<"test.pdf">>

Commands == {"md-to-pdf", "md-to-html", "html-to-pdf"}
PdfCommands == {"md-to-pdf", "html-to-pdf"}

\* The src attributes the documents are drawn from.
SrcSet == { <<>>, <<"a.png">>, <<".", "a.png">>, <<"img", "b.png">>, <<"..", "a.png">>,
            <<"out", "a.png">>, <<".", "nope.png">>, <<"..", "nope.png">>, <<"img">> }

RECURSIVE SeqsUpTo(_, _)
SeqsUpTo(S, n) ==
    IF n = 0 THEN {<<>>}
    ELSE LET shorter == SeqsUpTo(S, n - 1) IN
         shorter \cup {Append(s, x) : s \in shorter, x \in S}

Docs == SeqsUpTo(SrcSet, MaxImgs)

\* --output values: absent, a directory below the input's, a directory elsewhere.
Outputs == { <<>>, <<"out", "doc">>, <<"/", "o", "doc">> }
Inputs == { <<"in.md">>, <<"gone.md">> }

Dirs0 == { Root, <<"/", "d">>, <<"/", "d", "img">> }
Files0(doc) ==
    ( <<"/", "d", "in.md">> :> Text(doc) ) @@
    ( <<"/", "d", "a.png">> :> Img("A") ) @@
    ( <<"/", "d", "img", "b.png">> :> Img("B") ) @@
    ( <<"/", "a.png">> :> Img("C") )

VARIABLES
    file,          \* the regular files: resolved path -> content
    dirs,          \* the directories
    engine,        \* "ok" or "missing": whether wkhtmltopdf is installed
    args,          \* per invocation: command, input, output, no_images
    pc,            \* per invocation: the statement of main() it is at
    at,            \* per invocation: the statement an uncaught exception left
    html_content,  \* main's and copy_images' html_content
    soup,          \* copy_images: the src attribute of each parsed <img>
    idx,           \* copy_images: the <img> the for loop is at
    seen,          \* per <img> visited: "nosrc", "missing" or "copied"
    made,          \* the copies the invocation made: [src, dst, content]
    tempBy,        \* the invocation that wrote the temp.html on disk (0: none)
    got,           \* per invocation: whose temp.html its renderer read (0: none)
    fs0,           \* the filesystem when the run started
    run,           \* the number of the sequential run
    prev           \* how the previous sequential run ended ("" for none)

vars == <<file, dirs, engine, args, pc, at, html_content, soup, idx, seen, made,
          tempBy, got, fs0, run, prev>>

\* Sequential runs of one conversion.
MaxRuns == 2

Terminal == {"done", "exit1", "raised"}

(***************************************************************************)
(* main(): argument defaults and the output directory (lines 260-272)      *)
(***************************************************************************)
DefaultOutput(command) ==
    IF command = "md-to-html" THEN <<"output.html">> ELSE <<"output.pdf">>

Output(a) == IF a.output = <<>> THEN DefaultOutput(a.command) ELSE a.output

OutputDir(a) ==
    LET d == Dirname(Abspath(Output(a))) IN IF d = <<>> THEN <<".">> ELSE d

\* copy_images: input_dir
InputDir(a) == Dirname(Abspath(a.input))

(***************************************************************************)
(* copy_images(): the body of the for loop (lines 77-100)                  *)
(***************************************************************************)
\* Lines 81-85: './' is stripped; '../' is joined to input_dir and normalised.
NormSrc(input_dir, src) ==
    IF StartsDotSlash(src) THEN Tail(src)
    ELSE IF StartsDotDotSlash(src) THEN Normpath(Join(input_dir, src))
    ELSE src

\* Line 88
ImgPath(input_dir, nsrc) == Join(input_dir, nsrc)

\* The absolute path of a '../' reference taken as a relative one.
DestPathNested(output_dir, nsrc) ==
    IF IsAbs(nsrc) THEN output_dir \o Tail(nsrc) ELSE output_dir \o nsrc

\* Line 97: the copy's destination
DestPath(output_dir, nsrc) == Join(output_dir, nsrc)

\* The rewrite at line 100 moved out of the "if os.path.exists" block.
NewSrcAlways(found, old, nsrc) == nsrc

\* Lines 90, 100: the attribute after the iteration
NewSrc(found, old, nsrc) == IF found THEN nsrc ELSE old

\* The skip flag ignored.
SkipImagesNever(a) == FALSE

\* Line 64
SkipImages(a) == a.no_images

LoopBody(fl, ds, input_dir, output_dir, src) ==
    LET nsrc == NormSrc(input_dir, src)
        img_path == ImgPath(input_dir, nsrc)
        found == Exists(fl, ds, img_path)
        rel_path == Dirname(nsrc)
        md == IF rel_path # <<>> THEN Makedirs(fl, ds, Join(output_dir, rel_path))
              ELSE [ok |-> TRUE, dirs |-> ds]
        cp == Copy2(fl, md.dirs, img_path, DestPath(output_dir, nsrc))
        same == [out |-> "nosrc", file |-> fl, dirs |-> ds, attr |-> src, dst |-> Bad]
    IN IF src = <<>> THEN same
       ELSE IF ~found THEN [same EXCEPT !.out = "missing", !.attr = NewSrc(FALSE, src, nsrc)]
       ELSE IF ~md.ok THEN [same EXCEPT !.out = "failed", !.dirs = md.dirs]
       ELSE IF ~cp.ok THEN [same EXCEPT !.out = "failed", !.dirs = md.dirs, !.dst = cp.dst]
       ELSE [out |-> "copied", file |-> cp.file, dirs |-> md.dirs,
             attr |-> NewSrc(TRUE, src, nsrc), dst |-> cp.dst]

(***************************************************************************)
(* main(), one action per statement, for invocation p                      *)
(***************************************************************************)
Raise(p, where) ==
    /\ pc' = [pc EXCEPT ![p] = "raised"]
    /\ at' = [at EXCEPT ![p] = where]

Goto(p, label) ==
    /\ pc' = [pc EXCEPT ![p] = label]
    /\ UNCHANGED at

\* "except OSError: pass": the probe's failure does not end the run.
OnProbeErrorIgnored == "read"

\* Lines 253-258: where the handler of the probe's OSError leaves main.
OnProbeError == "exit1"

\* Lines 250-258: pdfkit.from_string('', 'test.pdf') renders the empty
\* document into the working directory, or raises OSError without wkhtmltopdf.
Probe(p) ==
    /\ pc[p] = "start"
    /\ IF engine = "missing"
       THEN Goto(p, OnProbeError) /\ UNCHANGED file
       ELSE LET w == WriteFile(file, dirs, TestPdf, Pdf(Text(<<>>))) IN
            /\ file' = w.file
            /\ IF w.ok THEN Goto(p, "read") ELSE Raise(p, "start")
    /\ UNCHANGED <<dirs, engine, args, html_content, soup, idx, seen, made,
                   tempBy, got, fs0, run, prev>>

\* Lines 197-220
convert_markdown_to_html(text) == generate_html_template(Markdown(text))

\* Lines 276-284, 302-310, 321-322: the input is opened and read.
ReadInput(p) ==
    /\ pc[p] = "read"
    /\ LET a == args[p] IN
       IF ~IsFile(file, dirs, a.input)
       THEN Raise(p, "read") /\ UNCHANGED html_content
       ELSE LET text == file[Walk(dirs, a.input)] IN
            /\ html_content' = [html_content EXCEPT ![p] =
                   IF a.command = "html-to-pdf" THEN text
                   ELSE convert_markdown_to_html(text)]
            /\ Goto(p, "copy")
    /\ UNCHANGED <<file, dirs, engine, args, soup, idx, seen, made,
                   tempBy, got, fs0, run, prev>>

\* The statement after copy_images returns.
AfterCopy(a) == IF a.command \in PdfCommands THEN "write_temp" ELSE "write_out"

\* Lines 64-75: the skip flag, makedirs(output_dir), the parse.
CopyBegin(p) ==
    /\ pc[p] = "copy"
    /\ IF SkipImages(args[p])
       THEN Goto(p, AfterCopy(args[p])) /\ UNCHANGED <<dirs, soup, idx>>
       ELSE LET md == Makedirs(file, dirs, OutputDir(args[p])) IN
            /\ dirs' = md.dirs
            /\ IF md.ok
               THEN /\ soup' = [soup EXCEPT ![p] = html_content[p].imgs]
                    /\ idx' = [idx EXCEPT ![p] = 1]
                    /\ Goto(p, "loop")
               ELSE Raise(p, "copy") /\ UNCHANGED <<soup, idx>>
    /\ UNCHANGED <<file, engine, args, html_content, seen, made,
                   tempBy, got, fs0, run, prev>>

\* A return statement indented into the loop body: one iteration at most.
LoopDoneEarly(i, n) == i > n \/ i > 1

\* Line 77: the for loop is over once every <img> has been visited.
LoopDone(i, n) == i > n

\* Lines 77-100: one iteration of the for loop.
CopyImg(p) ==
    /\ pc[p] = "loop"
    /\ ~LoopDone(idx[p], Len(soup[p]))
    /\ LET i == idx[p]
           b == LoopBody(file, dirs, InputDir(args[p]), OutputDir(args[p]), soup[p][i])
       IN /\ file' = b.file
          /\ dirs' = b.dirs
          /\ soup' = [soup EXCEPT ![p][i] = b.attr]
          /\ seen' = [seen EXCEPT ![p] = Append(@, b.out)]
          /\ made' = [made EXCEPT ![p] =
                 IF b.out = "copied"
                 THEN @ \cup {[img |-> i, dst |-> b.dst, content |-> b.file[b.dst]]}
                 ELSE @]
          /\ IF b.out = "failed"
             THEN Raise(p, "loop") /\ UNCHANGED idx
             ELSE Goto(p, "loop") /\ idx' = [idx EXCEPT ![p] = i + 1]
    /\ UNCHANGED <<engine, args, html_content, tempBy, got, fs0, run, prev>>

\* Line 102, and the assignment of the result at lines 287, 313, 323.
CopyReturn(p) ==
    /\ pc[p] = "loop"
    /\ LoopDone(idx[p], Len(soup[p]))
    /\ html_content' = [html_content EXCEPT ![p] = Serialize(@, soup[p])]
    /\ Goto(p, AfterCopy(args[p]))
    /\ UNCHANGED <<file, dirs, engine, args, soup, idx, seen, made,
                   tempBy, got, fs0, run, prev>>

\* Lines 290-292, 326-328
WriteTemp(p) ==
    /\ pc[p] = "write_temp"
    /\ LET w == WriteFile(file, dirs, TempHtml, html_content[p]) IN
       /\ file' = w.file
       /\ IF w.ok THEN Goto(p, "render") /\ tempBy' = p
                  ELSE Raise(p, "write_temp") /\ UNCHANGED tempBy
    /\ UNCHANGED <<dirs, engine, args, html_content, soup, idx, seen, made,
                   got, fs0, run, prev>>

\* What wkhtmltopdf may do with a readable temp.html: write the PDF and exit 0,
\* write it and exit non-zero, or exit non-zero without it.
RenderOutcomes == {"ok", "error_pdf", "error"}

\* The renderer fed the invocation's own HTML instead of the file's.
RenderSourceOwn(p) == html_content[p]

\* Line 241: pdfkit.from_file(html_file, ...) renders what the file holds now.
RenderSource(p) == file[Walk(dirs, TempHtml)]

\* Lines 295, 331 and 223-241: convert_html_to_pdf(temp_html, args.output, ...)
Render(p) ==
    /\ pc[p] = "render"
    /\ IF ~IsFile(file, dirs, TempHtml)
       THEN Raise(p, "render_nofile") /\ UNCHANGED <<file, got>>
       ELSE \E outcome \in RenderOutcomes :
            LET w == WriteFile(file, dirs, Output(args[p]), Pdf(RenderSource(p))) IN
            IF outcome = "error" \/ ~w.ok
            THEN Raise(p, "render") /\ UNCHANGED <<file, got>>
            ELSE /\ file' = w.file
                 /\ got' = [got EXCEPT ![p] = tempBy]
                 /\ IF outcome = "ok" THEN Goto(p, "remove") ELSE Raise(p, "render")
    /\ UNCHANGED <<dirs, engine, args, html_content, soup, idx, seen, made,
                   tempBy, fs0, run, prev>>

\* Lines 298, 334: os.remove(temp_html)
RemoveTemp(p) ==
    /\ pc[p] = "remove"
    /\ LET r == RemoveFile(file, dirs, TempHtml) IN
       /\ file' = r.file
       /\ IF r.ok THEN Goto(p, "done") /\ tempBy' = 0
                  ELSE Raise(p, "remove") /\ UNCHANGED tempBy
    /\ UNCHANGED <<dirs, engine, args, html_content, soup, idx, seen, made,
                   got, fs0, run, prev>>

\* Lines 316-317: md-to-html writes the output file.
WriteOut(p) ==
    /\ pc[p] = "write_out"
    /\ LET w == WriteFile(file, dirs, Output(args[p]), html_content[p]) IN
       /\ file' = w.file
       /\ IF w.ok THEN Goto(p, "done") ELSE Raise(p, "write_out")
    /\ UNCHANGED <<dirs, engine, args, html_content, soup, idx, seen, made,
                   tempBy, got, fs0, run, prev>>

Step(p) ==
    \/ Probe(p)
    \/ ReadInput(p)
    \/ CopyBegin(p)
    \/ CopyImg(p)
    \/ CopyReturn(p)
    \/ WriteTemp(p)
    \/ Render(p)
    \/ RemoveTemp(p)
    \/ WriteOut(p)

\* The same command line is run again once the run before it has ended.
Rerun ==
    /\ pc[1] \in Terminal
    /\ run < MaxRuns
    /\ run' = run + 1
    /\ prev' = pc[1]
    /\ fs0' = [file |-> file, dirs |-> dirs]
    /\ pc' = [pc EXCEPT ![1] = "start"]
    /\ at' = [at EXCEPT ![1] = ""]
    /\ html_content' = [html_content EXCEPT ![1] = NoDoc]
    /\ soup' = [soup EXCEPT ![1] = <<>>]
    /\ idx' = [idx EXCEPT ![1] = 0]
    /\ seen' = [seen EXCEPT ![1] = <<>>]
    /\ made' = [made EXCEPT ![1] = {}]
    /\ got' = [got EXCEPT ![1] = 0]
    /\ UNCHANGED <<file, dirs, engine, args, tempBy>>

(***************************************************************************)
(* Initial states and specifications                                       *)
(***************************************************************************)
ArgSets(commands, inputs, outputs) ==
    [command : commands, input : inputs, output : outputs, no_images : BOOLEAN]

Idle == [command |-> "md-to-pdf", input |-> <<"in.md">>, output |-> <<>>, no_images |-> TRUE]

InitLocals ==
    /\ at = [p \in Procs |-> ""]
    /\ html_content = [p \in Procs |-> NoDoc]
    /\ soup = [p \in Procs |-> <<>>]
    /\ idx = [p \in Procs |-> 0]
    /\ seen = [p \in Procs |-> <<>>]
    /\ made = [p \in Procs |-> {}]
    /\ tempBy = 0
    /\ got = [p \in Procs |-> 0]
    /\ fs0 = [file |-> file, dirs |-> dirs]
    /\ run = 1
    /\ prev = ""

\* One invocation, any command line, any document.
Init ==
    /\ \E doc \in Docs : file = Files0(doc)
    /\ dirs = Dirs0
    /\ engine \in {"ok", "missing"}
    /\ \E a \in ArgSets(Commands, Inputs, Outputs) : args = (1 :> a) @@ (2 :> Idle)
    /\ pc = (1 :> "start") @@ (2 :> "idle")
    /\ InitLocals

Next == Step(1)

Spec == Init /\ [][Next]_vars

\* The same conversion run MaxRuns times in sequence.
NextTwice == Step(1) \/ Rerun

SpecTwice == Init /\ [][NextTwice]_vars

\* The documents of two concurrent invocations.
ConcSrcSet == { <<"a.png">>, <<".", "nope.png">> }
ConcDocs == SeqsUpTo(ConcSrcSet, 1)

\* Two invocations started in the same working directory.
InitConc ==
    /\ \E d1, d2 \in ConcDocs :
          file = Files0(d1) @@ ( <<"/", "d", "in2.md">> :> Text(d2) )
    /\ dirs = Dirs0
    /\ engine = "ok"
    /\ \E a1 \in ArgSets(Commands, {<<"in.md">>}, {<<"/", "o", "doc">>}),
          a2 \in ArgSets(PdfCommands, {<<"in2.md">>}, {<<"out", "doc">>}) :
          args = (1 :> a1) @@ (2 :> a2)
    /\ pc = [p \in Procs |-> "start"]
    /\ InitLocals

NextConc == \E p \in Procs : Step(p)

SpecConc == InitConc /\ [][NextConc]_vars

(***************************************************************************)
(* Properties                                                              *)
(***************************************************************************)
\* The <img> src attributes of invocation p's input as it was read.
OrigImgs(p) == fs0.file[Walk(fs0.dirs, args[p].input)].imgs

\* The candidate path of the i-th <img> of invocation p (line 88).
SourceOf(p, i) ==
    ImgPath(InputDir(args[p]), NormSrc(InputDir(args[p]), OrigImgs(p)[i]))

\* path lies strictly below directory dir.
IsUnder(path, dir) == Len(path) > Len(dir) /\ SubSeq(path, 1, Len(dir)) = dir

Visited(p) == 1 .. Len(seen[p])

\* The i-th <img> was found on disk when the loop visited it.
Found(p, i) == seen[p][i] \in {"copied", "failed"}

OutputPath(p) == Walk(dirs, Output(args[p]))

\* C1: every <img> whose resolved source is an existing file is relocated:
\* copy_images does not raise on it, a file with the source's content is at
\* output_dir/<src>, that file lies below the output directory, and the
\* attribute is that relative path -- also when the output directory is the
\* input's own directory.
C1_RelocatedUnderOutputDir ==
    \A i \in Visited(1) :
        (Found(1, i) /\ IsFile(file, dirs, SourceOf(1, i))) =>
            /\ seen[1][i] = "copied"
            /\ ~IsAbs(soup[1][i])
            /\ LET dst == Walk(dirs, Join(OutputDir(args[1]), soup[1][i])) IN
               /\ IsUnder(dst, OutputDir(args[1]))
               /\ dst \in DOMAIN file
               /\ file[dst] = file[Walk(dirs, SourceOf(1, i))]

\* C2 (state part): an <img> whose candidate path was missing keeps the src
\* attribute of the input, './' or '../' included, and no copy is made for it.
C2_MissingKeepsSrc ==
    \A i \in Visited(1) :
        seen[1][i] = "missing" =>
            /\ soup[1][i] = OrigImgs(1)[i]
            /\ \A m \in made[1] : m.img # i

\* C2 (step part): the iteration over a missing <img> does not raise, touches
\* no file or directory, and the loop goes on to the next element.
C2_MissingStep ==
    (Len(seen'[1]) = Len(seen[1]) + 1 /\ seen'[1][Len(seen'[1])] = "missing") =>
        /\ file' = file
        /\ dirs' = dirs
        /\ pc'[1] = "loop"
        /\ idx'[1] = idx[1] + 1

\* C2: a missing image never raises, leaves the src attribute as it was in
\* the input, creates no file, and does not stop the other elements from
\* being processed.
C2_MissingImagePassedThrough == []C2_MissingKeepsSrc /\ [][C2_MissingStep]_vars

\* A './' reference to a missing image was passed through and a later
\* element of the same document was still copied.
C2_Witness ==
    /\ pc[1] = "done"
    /\ \E i, j \in Visited(1) :
          /\ i < j
          /\ seen[1][i] = "missing"
          /\ StartsDotSlash(html_content[1].imgs[i])
          /\ seen[1][j] = "copied"

\* C3: in a PDF-producing command, once temp.html has been written it is gone
\* when the run ends, whether the renderer returned or raised.
C3_TempRemovedOnEveryExit ==
    (/\ args[1].command \in PdfCommands
     /\ \/ pc[1] = "done"
        \/ pc[1] = "raised" /\ at[1] \in {"render", "render_nofile", "remove"})
        => ~IsFile(file, dirs, TempHtml)

\* C4 (step part): with the skip flag set the call of copy_images changes no
\* file, no directory and not the HTML, and main goes on to the next statement.
C4_SkipStep ==
    (pc[1] = "copy" /\ args[1].no_images /\ pc'[1] # "copy") =>
        /\ file' = file
        /\ dirs' = dirs
        /\ html_content'[1] = html_content[1]
        /\ pc'[1] = AfterCopy(args[1])

\* C4: with --no-images copy_images returns its argument unchanged and makes
\* no filesystem call: no existence check, no directory, no copy.
C4_SkipFlagNoFilesystem ==
    /\ [](args[1].no_images => (seen[1] = <<>> /\ made[1] = {} /\ soup[1] = <<>>))
    /\ [][C4_SkipStep]_vars

\* copy_images has returned under --no-images for a document with images
\* whose output directory does not exist.
C4_Witness ==
    /\ args[1].no_images
    /\ pc[1] = "write_temp"
    /\ html_content[1].imgs # <<>>
    /\ ~IsDir(dirs, OutputDir(args[1]))

\* C5: without wkhtmltopdf every subcommand exits with status 1 right after
\* the probe: the input has not been read and no file or directory was made.
C5_MissingEngineExitsFirst ==
    (engine = "missing" /\ pc[1] # "start") =>
        /\ pc[1] = "exit1"
        /\ html_content[1] = NoDoc
        /\ file = fs0.file
        /\ dirs = fs0.dirs

\* md-to-html, which needs no renderer, has exited on the failed probe.
C5_Witness ==
    /\ engine = "missing"
    /\ pc[1] = "exit1"
    /\ args[1].command = "md-to-html"
    /\ IsFile(file, dirs, args[1].input)

\* C6: after a successful run the only files it created are the output
\* artifact and the relocated image copies.
C6_OnlyOutputAndImagesPersist ==
    pc[1] = "done" =>
        \A f \in DOMAIN file \ DOMAIN fs0.file :
            \/ f = OutputPath(1)
            \/ \E m \in made[1] : m.dst = f

\* C7: a second run of the same conversion, after a first run that succeeded,
\* leaves the filesystem as the first run left it: files are overwritten with
\* equivalent content and none is added.
C7_SecondRunSameFilesystem ==
    (run = 2 /\ prev = "done" /\ pc[1] = "done") =>
        /\ file = fs0.file
        /\ dirs = fs0.dirs

\* C8: an invocation's PDF is rendered from whatever temp.html holds at that
\* moment, which is the HTML of the invocation that wrote the file last, its
\* own or the other's; and its render or its removal finds temp.html gone
\* only after the other invocation has removed it.
C8_TempHtmlShared ==
    \A p \in Procs :
        /\ got[p] # 0 =>
              /\ pc[got[p]] \in {"render", "remove", "done", "raised"}
              /\ file[OutputPath(p)] = Pdf(html_content[got[p]])
        /\ (pc[p] = "raised" /\ at[p] \in {"render_nofile", "remove"}) =>
              \E q \in Procs \ {p} : pc[q] = "done" /\ args[q].command \in PdfCommands

\* An invocation has finished normally with a PDF of the other's HTML.
C8_Witness ==
    \E p \in Procs :
        /\ pc[p] = "done"
        /\ got[p] \notin {0, p}
        /\ html_content[p] # html_content[got[p]]
        /\ file[OutputPath(p)] = Pdf(html_content[got[p]])

\* An invocation's removal of temp.html has failed after the other's removal.
C8_WitnessRemoveFails ==
    \E p \in Procs : pc[p] = "raised" /\ at[p] = "remove"

\* The i-th <img> of the input is a '../' reference found on disk.
ParentRefFound(p, i) == Found(p, i) /\ StartsDotDotSlash(OrigImgs(p)[i])

C9_ParentRefState ==
    \A i \in Visited(1) :
        ParentRefFound(1, i) =>
            /\ seen[1][i] = "failed"
            /\ pc[1] = "raised" /\ at[1] = "loop"
            /\ soup[1][i] = OrigImgs(1)[i]
            /\ \A m \in made[1] : m.img # i

\* C9 amended (step part): the iteration that finds the target of a '../'
\* reference creates no file and no directory: the destination is the
\* source itself.
C9_ParentRefStep ==
    (/\ Len(seen'[1]) = Len(seen[1]) + 1
     /\ StartsDotDotSlash(soup[1][Len(seen'[1])])
     /\ seen'[1][Len(seen'[1])] # "missing") =>
        /\ file' = file
        /\ dirs' = dirs
        /\ DestPath(OutputDir(args[1]), NormSrc(InputDir(args[1]), soup[1][Len(seen'[1])]))
              = SourceOf(1, Len(seen'[1]))

PastCopy == {"write_temp", "render", "remove", "write_out", "done"}

\* C10: while images are being relocated, and when a copy raised, neither
\* temp.html nor the output artifact has been written and the document has
\* not been rendered; once main is past copy_images every <img> has been
\* visited; the copies made before a failing copy stay on disk.
C10_RelocationBeforeOutput ==
    /\ (pc[1] \in {"copy", "loop"} \/ (pc[1] = "raised" /\ at[1] \in {"copy", "loop"})) =>
          /\ ~Exists(file, dirs, TempHtml)
          /\ ~Exists(file, dirs, Output(args[1]))
          /\ tempBy = 0 /\ got[1] = 0
    /\ (pc[1] \in PastCopy /\ ~args[1].no_images) =>
          /\ Len(seen[1]) = Len(OrigImgs(1))
          /\ \A i \in Visited(1) : seen[1][i] # "failed"
    /\ (pc[1] = "raised" /\ at[1] = "loop") =>
          /\ seen[1][Len(seen[1])] = "failed"
          /\ \A m \in made[1] :
                m.img < Len(seen[1]) /\ m.dst \in DOMAIN file /\ file[m.dst] = m.content

\* The copy of the second image raised after the first image was copied.
C10_Witness ==
    /\ pc[1] = "raised" /\ at[1] = "loop"
    /\ Len(seen[1]) = 2
    /\ \E m \in made[1] : m.img = 1 /\ IsUnder(m.dst, OutputDir(args[1]))
====
